---- MODULE Spec2Model ----
(***************************************************************************)
(* A model of the Kafka wire-protocol server of aaron-ang/kafka-rust: the  *)
(* per-connection request/response loop (main.rs), the typed codec         *)
(* (protocol.rs), and the ApiVersions / DescribeTopicPartitions handlers.  *)
(* Byte buffers are sequences of naturals 0..255; a decoder takes the      *)
(* remaining bytes and returns [ok, v, rest], ok = FALSE standing for a    *)
(* panic of the task (bytes::Buf panics when too few bytes remain).        *)
(***************************************************************************)
EXTENDS Integers, Sequences, FiniteSets, TLC

VARIABLES
    metadata_log,   \* the metadata log file: [readable, batches]
    segments,       \* the segment files of the log directory, by <<name, partition>>
    dtp_module,     \* which describe_topic_partitions module the build links
    inbuf,          \* inbuf[c]: bytes the client has sent and the server has not read
    eof,            \* eof[c]: the client has shut down its sending side
    pc,             \* pc[c]: position of the connection task in handle_conn
    exit,           \* exit[c]: how the task ended ("none" while it runs)
    message,        \* message[c]: the frame payload returned by get_message
    pending,        \* pending[c]: the response built for message[c], not yet written
    requests,       \* requests[c]: the payloads get_message returned, in order
    written,        \* written[c]: one entry per stream.write call, in order
    out,            \* out[c]: the bytes the socket accepted, in order
    nsent,          \* number of frames the clients have sent so far
    codec           \* a codec call: [kind, v, trailing, step, bytes, result]

vars == <<metadata_log, segments, dtp_module, inbuf, eof, pc, exit, message, pending,
          requests, written, out, nsent, codec>>

----------------------------------------------------------------------------
(* Bounds of the model *)

\* frames the clients send in total
MaxRequests == 2
\* a short write accepts at most this many bytes (or the whole buffer)
MaxShortWrite == 1
\* record batches in a metadata log
MaxBatches == 2
\* records in one record batch
MaxRecords == 2
\* topics in a Fetch request
MaxTopics == 2
\* partitions of one topic in a Fetch request
MaxPartitions == 2
\* elements of a compact array of u32 handed to the codec
MaxArrayLen == 2

Conns == {"c1", "c2"}

----------------------------------------------------------------------------
(* bytes::Buf / bytes::BufMut on sequences of bytes *)

Cat(ss) == LET RECURSIVE cat(_)
               cat(i) == IF i > Len(ss) THEN <<>> ELSE ss[i] \o cat(i + 1)
           IN cat(1)

split_to(src, n) == SubSeq(src, 1, n)
advance(src, n) == SubSeq(src, n + 1, Len(src))

Panicked == [ok |-> FALSE, v |-> <<>>, rest |-> <<>>]
Got(v, rest) == [ok |-> TRUE, v |-> v, rest |-> rest]

put_u8(v) == <<v % 256>>
put_i16(v) == <<(v % 65536) \div 256, v % 256>>
\* i32 in two's complement; the sign bit is handled apart so that every
\* intermediate value stays below 2^31
put_i32(v) ==
    LET lo == IF v < 0 THEN (v + 2147483647) + 1 ELSE v
        top == IF v < 0 THEN 128 ELSE 0
    IN <<top + (lo \div 16777216), (lo \div 65536) % 256, (lo \div 256) % 256, lo % 256>>
\* u32 below 2^31 (the model's inputs stay below it)
put_u32(v) == put_i32(v)

get_u8(src) ==
    IF Len(src) < 1 THEN Panicked ELSE Got(src[1], advance(src, 1))
get_i16(src) ==
    IF Len(src) < 2 THEN Panicked
    ELSE LET u == src[1] * 256 + src[2]
         IN Got(IF u >= 32768 THEN u - 65536 ELSE u, advance(src, 2))
get_i32(src) ==
    IF Len(src) < 4 THEN Panicked
    ELSE LET low == src[2] * 65536 + src[3] * 256 + src[4]
         IN Got(IF src[1] >= 128
                THEN (((src[1] - 128) * 16777216 + low) - 2147483647) - 1
                ELSE src[1] * 16777216 + low,
                advance(src, 4))

\* u32 read; the model's inputs keep the value below 2^31
get_u32(src) ==
    IF Len(src) < 4 THEN Panicked
    ELSE Got(src[1] * 16777216 + src[2] * 65536 + src[3] * 256 + src[4], advance(src, 4))
\* u64 read; the handlers never use the value, the model keeps its 8 bytes
get_u64(src) ==
    IF Len(src) < 8 THEN Panicked ELSE Got(split_to(src, 8), advance(src, 8))
\* i64 write of a value in 0 .. 2^31 - 1
put_i64(v) == <<0, 0, 0, 0>> \o put_i32(v)

\* integer_encoding::VarInt for unsigned types: 7 bits per byte, least
\* significant group first, msb = continuation
encode_var(n) ==
    LET RECURSIVE enc(_)
        enc(m) == IF m < 128 THEN <<m>> ELSE <<128 + (m % 128)>> \o enc(m \div 128)
    IN enc(n)

\* decode_var returns None (ok = FALSE) when the bytes end inside the varint
\* or the varint is longer than 10 bytes; v is the value, read the bytes used
decode_var(src) ==
    LET RECURSIVE loop(_, _, _)
        loop(i, result, shift) ==
            IF i > Len(src) THEN [ok |-> FALSE, v |-> 0, read |-> 0]
            ELSE LET b == src[i]
                     r == result + (b % 128) * (2 ^ shift)
                     s == shift + 7
                 IN IF b < 128 \/ s > 63
                    THEN [ok |-> b < 128, v |-> r, read |-> s \div 7]
                    ELSE loop(i + 1, r, s)
    IN loop(1, 0, 0)

\* String::from_utf8 succeeds on ASCII; the model's strings are ASCII, any
\* byte above 127 is taken as an invalid sequence
from_utf8_ok(bytes) == \A i \in 1..Len(bytes) : bytes[i] < 128

\* Sequencing of typed reads: st = [ok, v, rest] holds the fields read so
\* far (a record) and the bytes left; a failed read fails the whole decode.
\* Each step takes the state as a parameter.
Start(src) == Got(<<>>, src)
Put(st, name, r) ==
    IF ~st.ok \/ ~r.ok THEN Panicked ELSE Got(st.v @@ (name :> r.v), r.rest)
\* a read whose value is dropped
Drop(st, r) == IF ~st.ok \/ ~r.ok THEN Panicked ELSE Got(st.v, r.rest)

----------------------------------------------------------------------------
(* protocol.rs *)

ApiKey == [Fetch |-> 1, ApiVersions |-> 18, DescribeTopicPartitions |-> 75]
\* every i16 taken as a key
ApiKey_try_from_any(k) == k \in -32768..32767
ApiKey_try_from(k) ==
    k \in {ApiKey.Fetch, ApiKey.ApiVersions, ApiKey.DescribeTopicPartitions}

ErrorCode == [None |-> 0, UnknownTopicOrPartition |-> 3, UnsupportedVersion |-> 35,
              UnknownTopicId |-> 100]

TagBuffer_serialize == <<0>>
\* reads one byte and returns it; every caller drops the value
TagBuffer_deserialize(src) == get_u8(src)

HeaderV0_serialize(h) == put_i32(h.correlation_id)
HeaderV1_serialize(h) == put_i32(h.correlation_id) \o TagBuffer_serialize

\* Option<String>
None == [some |-> FALSE, s |-> <<>>]
Some(s) == [some |-> TRUE, s |-> s]

NullableString_deserialize(src) ==
    LET l == get_i16(src)
    IN IF ~l.ok THEN Panicked
       ELSE IF l.v = -1 \/ l.v = 0 THEN Got(None, l.rest)
       \* a negative length other than -1 becomes a huge usize
       ELSE IF l.v < 0 \/ Len(l.rest) < l.v THEN Got(None, l.rest)
       ELSE IF ~from_utf8_ok(split_to(l.rest, l.v)) THEN Panicked
       ELSE Got(Some(split_to(l.rest, l.v)), advance(l.rest, l.v))

HeaderV2_api_key(st) == Put(st, "api_key", get_i16(st.rest))
HeaderV2_api_version(st) == Put(st, "api_version", get_i16(st.rest))
HeaderV2_correlation_id(st) == Put(st, "correlation_id", get_i32(st.rest))
HeaderV2_client_id(st) == Put(st, "client_id", NullableString_deserialize(st.rest))
HeaderV2_tag_buffer(st) == Drop(st, TagBuffer_deserialize(st.rest))

HeaderV2_deserialize(src) ==
    HeaderV2_tag_buffer(HeaderV2_client_id(HeaderV2_correlation_id(
        HeaderV2_api_version(HeaderV2_api_key(Start(src))))))

CompactNullableString_serialize(x) ==
    IF x.some THEN encode_var(Len(x.s) + 1) \o x.s ELSE encode_var(0)

\* a length of 1 taken as null, like a length of 0
CompactNullableString_deserialize_empty_as_null(src) ==
    LET l == decode_var(src)
        rest == advance(src, l.read)
    IN IF ~l.ok THEN Panicked
       ELSE IF l.v <= 1 THEN Got(None, rest)
       ELSE IF Len(rest) < l.v - 1 THEN Got(None, rest)
       ELSE Got(Some(split_to(rest, l.v - 1)), advance(rest, l.v - 1))

CompactNullableString_deserialize(src) ==
    LET l == decode_var(src)
        rest == advance(src, l.read)
    IN IF ~l.ok THEN Panicked
       ELSE IF l.v = 0 THEN Got(None, rest)
       ELSE IF Len(rest) < l.v - 1 THEN Got(None, rest)
       ELSE IF ~from_utf8_ok(split_to(rest, l.v - 1)) THEN Panicked
       ELSE Got(Some(split_to(rest, l.v - 1)), advance(rest, l.v - 1))

\* CompactArray<T>::serialize with the items already serialized
CompactArray_serialize(items) == encode_var(Len(items) + 1) \o Cat(items)

\* Uuid is the textual form: 36 ASCII codes, 8-4-4-4-12 lowercase hex
Hyphen == 45
HexChar(n) == IF n < 10 THEN 48 + n ELSE 87 + n
HexVal(ch) ==
    IF ch \in 48..57 THEN ch - 48
    ELSE IF ch \in 97..102 THEN ch - 87
    ELSE IF ch \in 65..70 THEN ch - 55
    ELSE -1
hex_encode(bytes) ==
    Cat([i \in 1..Len(bytes) |-> <<HexChar(bytes[i] \div 16), HexChar(bytes[i] % 16)>>])
\* hex::decode: fails on an odd length or a character that is no hex digit
hex_decode(s) ==
    [ok |-> Len(s) % 2 = 0 /\ \A i \in 1..Len(s) : HexVal(s[i]) >= 0,
     v |-> [i \in 1..(Len(s) \div 2) |-> HexVal(s[2 * i - 1]) * 16 + HexVal(s[2 * i])]]
\* String::insert(idx, ch), idx counted from 0
insert(s, idx, ch) == SubSeq(s, 1, idx) \o <<ch>> \o SubSeq(s, idx + 1, Len(s))
\* str::replace('-', "")
replace_hyphens(s) == SelectSeq(s, LAMBDA ch : ch # Hyphen)

\* every Uuid of the model is hex text, so the expect() does not fire
Uuid_serialize(u) == hex_decode(replace_hyphens(u)).v
Uuid_deserialize(src) ==
    IF Len(src) < 16 THEN Panicked
    ELSE Got(insert(insert(insert(insert(hex_encode(split_to(src, 16)), 8, Hyphen),
                                  13, Hyphen), 18, Hyphen), 23, Hyphen),
             advance(src, 16))

----------------------------------------------------------------------------
(* api_versions.rs *)

\* the entries in the order of their keys
API_KEYS_by_key ==
    <<[key |-> ApiKey.Fetch, min_version |-> 0, max_version |-> 16],
      [key |-> ApiKey.ApiVersions, min_version |-> 0, max_version |-> 4],
      [key |-> ApiKey.DescribeTopicPartitions, min_version |-> 0, max_version |-> 0]>>

API_KEYS ==
    <<[key |-> ApiKey.ApiVersions, min_version |-> 0, max_version |-> 4],
      [key |-> ApiKey.DescribeTopicPartitions, min_version |-> 0, max_version |-> 0],
      [key |-> ApiKey.Fetch, min_version |-> 0, max_version |-> 16]>>

\* only the upper end of the range tested
ApiVersionsResponseV3_new_upper(req_header) ==
    [header |-> [correlation_id |-> req_header.correlation_id],
     error_code |-> IF req_header.api_version <= 4
                    THEN ErrorCode.None ELSE ErrorCode.UnsupportedVersion,
     api_keys |-> API_KEYS,
     throttle_time_ms |-> 0]

ApiVersionsResponseV3_new(req_header) ==
    [header |-> [correlation_id |-> req_header.correlation_id],
     error_code |-> IF req_header.api_version \in 0..4
                    THEN ErrorCode.None ELSE ErrorCode.UnsupportedVersion,
     api_keys |-> API_KEYS,
     throttle_time_ms |-> 0]

ApiVersionsApiKey_serialize(k) ==
    put_i16(k.key) \o put_i16(k.min_version) \o put_i16(k.max_version)
        \o TagBuffer_serialize

ApiVersionsResponseV3_as_bytes(r) ==
    HeaderV0_serialize(r.header)
        \o put_i16(r.error_code)
        \o CompactArray_serialize([i \in 1..Len(r.api_keys) |->
                                       ApiVersionsApiKey_serialize(r.api_keys[i])])
        \o put_i32(r.throttle_time_ms)
        \o TagBuffer_serialize

----------------------------------------------------------------------------
(* api/cluster_metadata.rs: the metadata log as the record values of its   *)
(* record batches; a batch is the sequence of its records' values          *)

TopicValue(topic_name, topic_id) ==
    [type |-> "Topic", topic_name |-> topic_name, topic_id |-> topic_id]

PartitionValue(partition_id, topic_id, replicas, in_sync_replicas, removing_replicas, adding_replicas, leader_id, leader_epoch) ==
    [type |-> "Partition", partition_id |-> partition_id, topic_id |-> topic_id,
     replicas |-> replicas, in_sync_replicas |-> in_sync_replicas,
     removing_replicas |-> removing_replicas, adding_replicas |-> adding_replicas,
     leader_id |-> leader_id, leader_epoch |-> leader_epoch]

\* a file that cannot be read taken as an empty log
RecordBatches_from_file_lenient(file) == [ok |-> TRUE, batches |-> file.batches]
\* std::fs::read(path)? fails when the file cannot be read
RecordBatches_from_file(file) == [ok |-> file.readable, batches |-> file.batches]

----------------------------------------------------------------------------
(* api/describe_topic_partitions.rs *)

DEFAULT_UNKNOWN_TOPIC_UUID ==
    insert(insert(insert(insert([i \in 1..32 |-> 48], 8, Hyphen), 13, Hyphen),
                  18, Hyphen), 23, Hyphen)

\* impl Deserialize<CompactNullableString> for Topic
Topic_tag_buffer(name) ==
    IF ~name.ok THEN Panicked ELSE Drop(name, TagBuffer_deserialize(name.rest))
Topic_deserialize(src) == Topic_tag_buffer(CompactNullableString_deserialize(src))

\* CompactArray::<Topic>::deserialize (protocol.rs, CompactArray<T>::deserialize
\* with T::deserialize = Topic_deserialize)
CompactArray_Topic_deserialize(src) ==
    LET l == decode_var(src)
        items_len == IF l.v > 1 THEN l.v - 1 ELSE 0
        RECURSIVE loop(_, _, _)
        push(n, acc, item) ==
            IF ~item.ok THEN Panicked ELSE loop(n - 1, Append(acc, item.v), item.rest)
        loop(n, acc, rest) ==
            IF n = 0 THEN Got(acc, rest) ELSE push(n, acc, Topic_deserialize(rest))
    IN IF ~l.ok THEN Panicked ELSE loop(items_len, <<>>, advance(src, l.read))

DescribeRequest_topic_names(st) ==
    Put(st, "topic_names", CompactArray_Topic_deserialize(st.rest))
DescribeRequest_response_partition_limit(st) ==
    Put(st, "response_partition_limit", get_i32(st.rest))
DescribeRequest_cursor(st) == Put(st, "cursor", get_u8(st.rest))
DescribeRequest_tag_buffer(st) == Drop(st, TagBuffer_deserialize(st.rest))

DescribeTopicPartitionsRequestV0_deserialize(src) ==
    DescribeRequest_tag_buffer(DescribeRequest_cursor(
        DescribeRequest_response_partition_limit(DescribeRequest_topic_names(Start(src)))))

Partition_new(error_code, partition_index, leader_id, leader_epoch, replicas, in_sync_replicas, eligible_leader_replicas, last_known_eligible_leader_replicas, offline_replicas) ==
    [error_code |-> error_code, partition_index |-> partition_index,
     leader_id |-> leader_id, leader_epoch |-> leader_epoch, replicas |-> replicas,
     in_sync_replicas |-> in_sync_replicas,
     eligible_leader_replicas |-> eligible_leader_replicas,
     last_known_eligible_leader_replicas |-> last_known_eligible_leader_replicas,
     offline_replicas |-> offline_replicas]

u32_array_serialize(xs) == CompactArray_serialize([i \in 1..Len(xs) |-> put_u32(xs[i])])

Partition_serialize(p) ==
    put_i16(p.error_code) \o put_u32(p.partition_index) \o put_u32(p.leader_id)
        \o put_u32(p.leader_epoch)
        \o u32_array_serialize(p.replicas)
        \o u32_array_serialize(p.in_sync_replicas)
        \o u32_array_serialize(p.eligible_leader_replicas)
        \o u32_array_serialize(p.last_known_eligible_leader_replicas)
        \o u32_array_serialize(p.offline_replicas)
        \o TagBuffer_serialize

Topic_serialize(t) ==
    put_i16(t.error_code)
        \o CompactNullableString_serialize(t.name)
        \o Uuid_serialize(t.topic_id)
        \o put_u8(IF t.is_internal THEN 1 ELSE 0)
        \o CompactArray_serialize([i \in 1..Len(t.partitions) |->
                                       Partition_serialize(t.partitions[i])])
        \o put_i32(t.topic_authorized_operations)
        \o TagBuffer_serialize

\* the header left at its default
DescribeTopicPartitionsResponseV0_new_default_header(correlation_id, topics) ==
    [header |-> [correlation_id |-> 0], throttle_time_ms |-> 0, topics |-> topics,
     next_cursor |-> 255]
DescribeTopicPartitionsResponseV0_new(correlation_id, topics) ==
    [header |-> [correlation_id |-> correlation_id], throttle_time_ms |-> 0,
     topics |-> topics, next_cursor |-> 255]

DescribeTopicPartitionsResponseV0_as_bytes(r) ==
    HeaderV1_serialize(r.header)
        \o put_i32(r.throttle_time_ms)
        \o CompactArray_serialize([i \in 1..Len(r.topics) |-> Topic_serialize(r.topics[i])])
        \o put_u8(r.next_cursor)
        \o TagBuffer_serialize

\* the state of one (record batch, requested name) iteration before its
\* records are scanned
fresh_scan ==
    [topic_id |-> DEFAULT_UNKNOWN_TOPIC_UUID,
     topic_error_code |-> ErrorCode.UnknownTopicOrPartition, partitions |-> <<>>]

\* the two `if let` of the body of `for rec in &record_batch.records`
scan_topic_record(st, rec, topic_name) ==
    IF rec.type = "Topic" /\ rec.topic_name = topic_name
    THEN [st EXCEPT !.topic_id = rec.topic_id, !.topic_error_code = ErrorCode.None]
    ELSE st
scan_partition_record(st, rec) ==
    IF rec.type = "Partition" /\ rec.topic_id = st.topic_id
    THEN [st EXCEPT !.partitions =
              Append(@, Partition_new(ErrorCode.None, rec.partition_id, rec.leader_id,
                                      rec.leader_epoch, rec.replicas,
                                      rec.in_sync_replicas, rec.adding_replicas, <<>>,
                                      rec.removing_replicas))]
    ELSE st

\* `for rec in &record_batch.records`
scan_records(records, topic_name) ==
    LET RECURSIVE loop(_, _)
        loop(i, st) ==
            IF i > Len(records) THEN st
            ELSE loop(i + 1, scan_partition_record(
                                 scan_topic_record(st, records[i], topic_name),
                                 records[i]))
    IN loop(1, fresh_scan)

\* `if !partitions.is_empty() { topics.push(..) }`
push_found_topic(st, topic_name, topic_authorized_operations) ==
    IF st.partitions # <<>>
    THEN <<[error_code |-> st.topic_error_code, name |-> topic_name,
            topic_id |-> st.topic_id, is_internal |-> FALSE,
            partitions |-> st.partitions,
            topic_authorized_operations |-> topic_authorized_operations]>>
    ELSE <<>>

\* `for topic_name in &req.topic_names`, for one record batch
topics_of_batch(records, topic_names, topic_authorized_operations) ==
    Cat([j \in 1..Len(topic_names) |->
            push_found_topic(scan_records(records, topic_names[j]), topic_names[j],
                             topic_authorized_operations)])

\* `for record_batch in record_batches.batches()`
found_topics(batches, topic_names, topic_authorized_operations) ==
    Cat([b \in 1..Len(batches) |->
            topics_of_batch(batches[b], topic_names, topic_authorized_operations)])

\* `for requested_topic in req.topic_names`: names no entry carries yet
push_unknown_topics(topics, topic_names, topic_authorized_operations) ==
    LET RECURSIVE loop(_, _)
        loop(j, acc) ==
            IF j > Len(topic_names) THEN acc
            ELSE IF \E i \in 1..Len(acc) : acc[i].name = topic_names[j]
            THEN loop(j + 1, acc)
            ELSE loop(j + 1,
                      Append(acc, [error_code |-> ErrorCode.UnknownTopicOrPartition,
                                   name |-> topic_names[j],
                                   topic_id |-> DEFAULT_UNKNOWN_TOPIC_UUID,
                                   is_internal |-> FALSE, partitions |-> <<>>,
                                   topic_authorized_operations |->
                                       topic_authorized_operations]))
    IN loop(1, topics)

\* a handler's result: outcome "ok" with the response and resp.as_bytes(),
\* "error" for Err(..), "panic" for a panic of the task
Failed(how) == [outcome |-> how, kind |-> "none", resp |-> <<>>, bytes |-> <<>>]
Responded(kind, resp, bytes) ==
    [outcome |-> "ok", kind |-> kind, resp |-> resp, bytes |-> bytes]
DescribeResponded(resp) ==
    Responded("DescribeTopicPartitions", resp,
              DescribeTopicPartitionsResponseV0_as_bytes(resp))

\* handle_request after the metadata log is loaded and the request decoded
api_describe_topics(header, batches, req, topic_authorized_operations) ==
    IF ~req.ok THEN Failed("panic")
    ELSE DescribeResponded(DescribeTopicPartitionsResponseV0_new(
             header.correlation_id,
             push_unknown_topics(
                 found_topics(batches, req.v.topic_names, topic_authorized_operations),
                 req.v.topic_names, topic_authorized_operations)))

api_describe_topic_partitions_handle_request(header, body, file) ==
    IF ~RecordBatches_from_file(file).ok THEN Failed("error")
    ELSE api_describe_topics(header, RecordBatches_from_file(file).batches,
                             DescribeTopicPartitionsRequestV0_deserialize(body), 223)

----------------------------------------------------------------------------
(* describe_topic_partitions.rs: the module main.rs declares; it answers    *)
(* every name as unknown and does not read the metadata log                *)

describe_unknown_topics(header, req) ==
    IF ~req.ok THEN Failed("panic")
    ELSE DescribeResponded(DescribeTopicPartitionsResponseV0_new(
             header.correlation_id,
             [j \in 1..Len(req.v.topic_names) |->
                 [error_code |-> ErrorCode.UnknownTopicOrPartition,
                  name |-> req.v.topic_names[j],
                  topic_id |-> DEFAULT_UNKNOWN_TOPIC_UUID,
                  is_internal |-> FALSE, partitions |-> <<>>,
                  topic_authorized_operations |-> 0]]))

describe_topic_partitions_handle_request(header, body) ==
    describe_unknown_topics(header, DescribeTopicPartitionsRequestV0_deserialize(body))

----------------------------------------------------------------------------
(* api/fetch.rs *)

\* CompactArray<T>::deserialize (protocol.rs) for the element types of a
\* Fetch request; kind names the element's deserialize
RECURSIVE CompactArray_deserialize(_, _)

\* impl Deserialize<Partition> for TopicRequest
FetchPartition_partition_index(st) == Put(st, "partition_index", get_u32(st.rest))
FetchPartition_current_leader_epoch(st) == Put(st, "current_leader_epoch", get_u32(st.rest))
FetchPartition_fetch_offset(st) == Put(st, "fetch_offset", get_u64(st.rest))
FetchPartition_last_fetched_epoch(st) == Put(st, "last_fetched_epoch", get_u32(st.rest))
FetchPartition_log_start_offset(st) == Put(st, "log_start_offset", get_u64(st.rest))
FetchPartition_partition_max_bytes(st) == Put(st, "partition_max_bytes", get_u32(st.rest))
FetchPartition_tag_buffer(st) == Drop(st, TagBuffer_deserialize(st.rest))
FetchPartition_deserialize(src) ==
    FetchPartition_tag_buffer(FetchPartition_partition_max_bytes(
        FetchPartition_log_start_offset(FetchPartition_last_fetched_epoch(
            FetchPartition_fetch_offset(FetchPartition_current_leader_epoch(
                FetchPartition_partition_index(Start(src))))))))

\* impl Deserialize<TopicRequest> for FetchRequestV16
TopicRequest_topic_id(st) == Put(st, "topic_id", Uuid_deserialize(st.rest))
TopicRequest_partitions(st) ==
    Put(st, "partitions", CompactArray_deserialize("Partition", st.rest))
TopicRequest_tag_buffer(st) == Drop(st, TagBuffer_deserialize(st.rest))
TopicRequest_deserialize(src) ==
    TopicRequest_tag_buffer(TopicRequest_partitions(TopicRequest_topic_id(Start(src))))

\* impl Deserialize<ForgottenTopicData> for FetchRequestV16
ForgottenTopicData_topic_id(st) == Put(st, "topic_id", Uuid_deserialize(st.rest))
ForgottenTopicData_partitions(st) ==
    Put(st, "partitions", CompactArray_deserialize("u32", st.rest))
ForgottenTopicData_tag_buffer(st) == Drop(st, TagBuffer_deserialize(st.rest))
ForgottenTopicData_deserialize(src) ==
    ForgottenTopicData_tag_buffer(
        ForgottenTopicData_partitions(ForgottenTopicData_topic_id(Start(src))))

\* T::deserialize(src) of the loop of CompactArray<T>::deserialize
item_deserialize(kind, src) ==
    CASE kind = "Partition" -> FetchPartition_deserialize(src)
      [] kind = "TopicRequest" -> TopicRequest_deserialize(src)
      [] kind = "ForgottenTopicData" -> ForgottenTopicData_deserialize(src)
      [] kind = "u32" -> get_u32(src)
      [] kind = "Uuid" -> Uuid_deserialize(src)
      \* impl Deserialize<Header> for Record reads nothing
      [] kind = "Header" -> Got("Header", src)

\* the loop `for _ in 0..items_len { items.push(T::deserialize(src)) }`
RECURSIVE CompactArray_items(_, _, _, _)
CompactArray_push(kind, n, acc, item) ==
    IF ~item.ok THEN Panicked
    ELSE CompactArray_items(kind, n - 1, Append(acc, item.v), item.rest)
CompactArray_items(kind, n, acc, rest) ==
    IF n = 0 THEN Got(acc, rest)
    ELSE CompactArray_push(kind, n, acc, item_deserialize(kind, rest))

CompactArray_deserialize(kind, src) ==
    LET l == decode_var(src)
    IN IF ~l.ok THEN Panicked
       ELSE CompactArray_items(kind, IF l.v > 1 THEN l.v - 1 ELSE 0, <<>>,
                               advance(src, l.read))

\* api/cluster_metadata.rs: the metadata log decoded from the bytes of the file

\* i64::decode_var: a zig-zag varint
decode_var_i64(src) ==
    IF ~decode_var(src).ok THEN Panicked
    ELSE Got(IF decode_var(src).v % 2 = 0 THEN decode_var(src).v \div 2
             ELSE -((decode_var(src).v + 1) \div 2),
             advance(src, decode_var(src).read))

FeatureLevelValue(name, level) == [type |-> "FeatureLevel", name |-> name, level |-> level]

\* enum RecordType
RecordType == [Topic |-> 2, Partition |-> 3, FeatureLevel |-> 12]
RecordType_try_from(b) == b \in {RecordType.Topic, RecordType.Partition, RecordType.FeatureLevel}

\* one typed read of RecordValue::from_bytes
record_field(kind, src) ==
    CASE kind = "u8" -> get_u8(src)
      [] kind = "u16" -> get_i16(src)
      [] kind = "u32" -> get_u32(src)
      [] kind = "Uuid" -> Uuid_deserialize(src)
      [] kind = "CompactNullableString" -> CompactNullableString_deserialize(src)
      [] kind = "CompactArray_u32" -> CompactArray_deserialize("u32", src)
      [] kind = "CompactArray_Uuid" -> CompactArray_deserialize("Uuid", src)
read_field(st, name, kind) ==
    IF ~st.ok THEN Panicked ELSE Put(st, name, record_field(kind, st.rest))

\* any frame_version taken
RecordValue_frame_version_any(st) == IF ~st.ok THEN Panicked ELSE st
\* assert_eq!(frame_version, 1)
RecordValue_frame_version(st) ==
    IF ~st.ok \/ st.v.frame_version # 1 THEN Panicked ELSE st
\* RecordType::try_from(src.get_u8()).unwrap()
RecordValue_record_type(st) ==
    IF ~st.ok \/ ~RecordType_try_from(st.v.record_type) THEN Panicked ELSE st
\* the assert_eq!(version, ..) of each arm of the match
RecordValue_version(st) ==
    IF ~st.ok THEN Panicked
    ELSE IF st.v.record_type = RecordType.Partition /\ st.v.version # 1 THEN Panicked
    ELSE IF st.v.record_type # RecordType.Partition /\ st.v.version # 0 THEN Panicked
    ELSE st
\* the arms of `match record_type`
RecordValue_fields(st) ==
    IF ~st.ok THEN Panicked
    ELSE CASE st.v.record_type = RecordType.Topic ->
                read_field(read_field(st, "topic_name", "CompactNullableString"),
                           "topic_id", "Uuid")
           [] st.v.record_type = RecordType.Partition ->
                read_field(read_field(read_field(read_field(read_field(read_field(
                    read_field(read_field(read_field(read_field(st,
                        "partition_id", "u32"), "topic_id", "Uuid"),
                        "replicas", "CompactArray_u32"),
                        "in_sync_replicas", "CompactArray_u32"),
                        "removing_replicas", "CompactArray_u32"),
                        "adding_replicas", "CompactArray_u32"),
                        "leader_id", "u32"), "leader_epoch", "u32"),
                        "partition_epoch", "u32"), "directories", "CompactArray_Uuid")
           [] st.v.record_type = RecordType.FeatureLevel ->
                read_field(read_field(st, "name", "CompactNullableString"), "level", "u16")
\* assert_eq!(tagged_fields_count, 0)
RecordValue_tagged_fields(st, count) ==
    IF ~st.ok \/ ~count.ok THEN Panicked
    ELSE IF count.v # 0 THEN Panicked
    ELSE Got(st.v, count.rest)
RecordValue_tagged_fields_count(st) ==
    IF ~st.ok THEN Panicked ELSE RecordValue_tagged_fields(st, decode_var_i64(st.rest))
\* the value built; partition_epoch and directories are read by no handler
RecordValue_new(st) ==
    IF ~st.ok THEN Panicked
    ELSE Got(CASE st.v.record_type = RecordType.Topic ->
                    TopicValue(st.v.topic_name, st.v.topic_id)
               [] st.v.record_type = RecordType.Partition ->
                    PartitionValue(st.v.partition_id, st.v.topic_id, st.v.replicas,
                                   st.v.in_sync_replicas, st.v.removing_replicas,
                                   st.v.adding_replicas, st.v.leader_id,
                                   st.v.leader_epoch)
               [] st.v.record_type = RecordType.FeatureLevel ->
                    FeatureLevelValue(st.v.name, st.v.level),
             st.rest)
RecordValue_from_bytes(src) ==
    RecordValue_new(RecordValue_tagged_fields_count(RecordValue_fields(
        RecordValue_version(read_field(
            RecordValue_record_type(read_field(
                RecordValue_frame_version(read_field(Start(src), "frame_version", "u8")),
                "record_type", "u8")),
            "version", "u8")))))

\* the key of a record: split_to(key_len) when key_len > 0
Record_key(st, key_len) ==
    IF ~st.ok \/ ~key_len.ok THEN Panicked
    ELSE IF key_len.v <= 0 THEN Got(st.v, key_len.rest)
    ELSE IF Len(key_len.rest) < key_len.v THEN Panicked
    ELSE Got(st.v, advance(key_len.rest, key_len.v))
Record_var(st) == IF ~st.ok THEN Panicked ELSE Drop(st, decode_var_i64(st.rest))
Record_attributes(st) == IF ~st.ok THEN Panicked ELSE Drop(st, get_u8(st.rest))
Record_key_len(st) == IF ~st.ok THEN Panicked ELSE Record_key(st, decode_var_i64(st.rest))
Record_value(st) ==
    IF ~st.ok THEN Panicked ELSE Put(st, "value", RecordValue_from_bytes(st.rest))
Record_headers(st) ==
    IF ~st.ok THEN Panicked ELSE Drop(st, CompactArray_deserialize("Header", st.rest))
Record_new(st) == IF ~st.ok THEN Panicked ELSE Got(st.v.value, st.rest)
\* length, attributes, timestamp_delta, offset_delta, key, value_length,
\* value, headers; the model keeps the value
Record_from_bytes(src) ==
    Record_new(Record_headers(Record_value(Record_var(Record_key_len(Record_var(
        Record_var(Record_attributes(Record_var(Start(src))))))))))

\* NullableBytes::<RecordBatch>::deserialize: an i32 count, then the records
RECURSIVE NullableBytes_items(_, _, _)
NullableBytes_push(n, acc, item) ==
    IF ~item.ok THEN Panicked
    ELSE NullableBytes_items(n - 1, Append(acc, item.v), item.rest)
NullableBytes_items(n, acc, rest) ==
    IF n = 0 THEN Got(acc, rest)
    ELSE NullableBytes_push(n, acc, Record_from_bytes(rest))
NullableBytes_count(len) ==
    IF ~len.ok THEN Panicked
    ELSE IF len.v = -1 THEN Got(<<>>, len.rest)
    \* a negative count as usize: Vec::with_capacity panics
    ELSE IF len.v < 0 THEN Panicked
    ELSE NullableBytes_items(len.v, <<>>, len.rest)
NullableBytes_deserialize(src) == NullableBytes_count(get_i32(src))

\* the bytes of the twelve fixed fields of a record batch
RecordBatchHeaderLen == 57
\* RecordBatch::from_bytes; the model keeps the values of the records
RecordBatch_from_bytes(src) ==
    IF Len(src) < RecordBatchHeaderLen THEN Panicked
    ELSE NullableBytes_deserialize(advance(src, RecordBatchHeaderLen))

\* `while data.has_remaining()` of RecordBatches::from_file
RECURSIVE RecordBatches_loop(_, _)
RecordBatches_push(batches, batch) ==
    IF ~batch.ok THEN Panicked
    ELSE RecordBatches_loop(Append(batches, batch.v), batch.rest)
RecordBatches_loop(batches, data) ==
    IF data = <<>> THEN Got(batches, data)
    ELSE RecordBatches_push(batches, RecordBatch_from_bytes(data))

\* RecordBatches::from_file on a file given by its bytes: the file as the
\* handlers see it once decoded, or how the call ended
RecordBatches_decoded(file, r) ==
    IF ~file.readable THEN [outcome |-> "error", file |-> file]
    ELSE IF ~r.ok THEN [outcome |-> "panic", file |-> file]
    ELSE [outcome |-> "ok", file |-> [readable |-> TRUE, batches |-> r.v]]
RecordBatches_from_file_data(file) ==
    RecordBatches_decoded(file, RecordBatches_loop(<<>>, file.data))

FetchRequest_max_wait_ms(st) == Put(st, "max_wait_ms", get_u32(st.rest))
FetchRequest_min_bytes(st) == Put(st, "min_bytes", get_u32(st.rest))
FetchRequest_max_bytes(st) == Put(st, "max_bytes", get_u32(st.rest))
FetchRequest_isolation_level(st) == Put(st, "isolation_level", get_u8(st.rest))
FetchRequest_session_id(st) == Put(st, "session_id", get_u32(st.rest))
FetchRequest_session_epoch(st) == Put(st, "session_epoch", get_u32(st.rest))
FetchRequest_topics(st) ==
    Put(st, "topics", CompactArray_deserialize("TopicRequest", st.rest))
FetchRequest_forgotten_topics_data(st) ==
    Put(st, "forgotten_topics_data",
        CompactArray_deserialize("ForgottenTopicData", st.rest))
FetchRequest_rack_id(st) == Put(st, "rack_id", CompactNullableString_deserialize(st.rest))
FetchRequest_tag_buffer(st) == Drop(st, TagBuffer_deserialize(st.rest))

FetchRequestV16_deserialize(src) ==
    FetchRequest_tag_buffer(FetchRequest_rack_id(FetchRequest_forgotten_topics_data(
        FetchRequest_topics(FetchRequest_session_epoch(FetchRequest_session_id(
            FetchRequest_isolation_level(FetchRequest_max_bytes(FetchRequest_min_bytes(
                FetchRequest_max_wait_ms(Start(src)))))))))))

FetchResponseV16_new(correlation_id, session_id, responses) ==
    [header |-> [correlation_id |-> correlation_id], throttle_time_ms |-> 0,
     error_code |-> ErrorCode.None, session_id |-> session_id, responses |-> responses]

\* CompactArray<BatchBytes>::serialize: the count, then each batch's bytes as
\* they are
TopicPartition_serialize(p) ==
    put_u32(p.partition_index) \o put_i16(p.error_code)
        \o put_i64(p.high_watermark) \o put_i64(p.last_stable_offset)
        \o put_i64(p.log_start_offset)
        \o CompactArray_serialize(p.aborted_transactions)
        \o put_i32(p.preferred_read_replica)
        \o CompactArray_serialize(p.record_batches)
        \o TagBuffer_serialize

TopicResponse_serialize(t) ==
    Uuid_serialize(t.topic_id)
        \o CompactArray_serialize([i \in 1..Len(t.partitions) |->
                                       TopicPartition_serialize(t.partitions[i])])
        \o TagBuffer_serialize

FetchResponseV16_as_bytes(r) ==
    HeaderV1_serialize(r.header)
        \o put_i32(r.throttle_time_ms)
        \o put_i16(r.error_code)
        \o put_u32(r.session_id)
        \o CompactArray_serialize([i \in 1..Len(r.responses) |->
                                       TopicResponse_serialize(r.responses[i])])
        \o TagBuffer_serialize

\* api/cluster_metadata.rs, raw_batch_for_topic: the name the first Topic
\* record with the topic_id gives it, "" when there is none or it is null
topic_name_of(batches, topic_id) ==
    LET recs == Cat(batches)
        hits == {i \in 1..Len(recs) :
                    recs[i].type = "Topic" /\ recs[i].topic_id = topic_id}
    IN IF hits = {} THEN <<>>
       ELSE recs[CHOOSE i \in hits : \A j \in hits : i <= j].topic_name.s

\* std::fs::read of /tmp/kraft-combined-logs/<name>-<partition>/..0.log
segment_read(dir, topic_name, partition_id) ==
    IF <<topic_name, partition_id>> \in DOMAIN dir
    THEN [ok |-> TRUE, bytes |-> dir[<<topic_name, partition_id>>]]
    ELSE [ok |-> FALSE, bytes |-> <<>>]

\* Result<Option<Bytes>>: Ok(None), Ok(Some(bytes)) or Err
read_named_segment(dir, topic_name, partition_id) ==
    IF topic_name = <<>> THEN [ok |-> TRUE, some |-> FALSE, bytes |-> <<>>]
    ELSE [ok |-> segment_read(dir, topic_name, partition_id).ok, some |-> TRUE,
          bytes |-> segment_read(dir, topic_name, partition_id).bytes]
raw_batch_for_topic(batches, dir, topic_id, partition_id) ==
    read_named_segment(dir, topic_name_of(batches, topic_id), partition_id)

\* the body of `for partition in topic_req.partitions` once
\* raw_batch_for_topic has returned raw; st = [ok, error_code, partitions]
fetch_partition(st, partition_id, raw) ==
    IF ~raw.ok THEN [st EXCEPT !.ok = FALSE]
    ELSE [ok |-> TRUE,
          error_code |-> IF raw.some THEN ErrorCode.None ELSE st.error_code,
          partitions |->
              Append(st.partitions,
                     [partition_index |-> partition_id,
                      error_code |-> IF raw.some THEN ErrorCode.None ELSE st.error_code,
                      high_watermark |-> 0, last_stable_offset |-> 0,
                      log_start_offset |-> 0, aborted_transactions |-> <<>>,
                      preferred_read_replica |-> 0,
                      record_batches |-> IF raw.some THEN <<raw.bytes>> ELSE <<>>])]

\* `for partition in topic_req.partitions`
fetch_partitions(batches, dir, topic_req) ==
    LET RECURSIVE loop(_, _)
        loop(i, st) ==
            IF i > Len(topic_req.partitions) \/ ~st.ok THEN st
            ELSE loop(i + 1,
                      fetch_partition(st, topic_req.partitions[i].partition_index,
                                      raw_batch_for_topic(
                                          batches, dir, topic_req.topic_id,
                                          topic_req.partitions[i].partition_index)))
    IN loop(1, [ok |-> TRUE, error_code |-> ErrorCode.UnknownTopicId,
                partitions |-> <<>>])

\* `for topic_req in req.topics`; st = [ok, responses]
fetch_topic(st, topic_id, parts) ==
    IF ~parts.ok THEN [st EXCEPT !.ok = FALSE]
    ELSE [st EXCEPT !.responses =
              Append(@, [topic_id |-> topic_id, partitions |-> parts.partitions])]
fetch_topics(batches, dir, topics) ==
    LET RECURSIVE loop(_, _)
        loop(i, st) ==
            IF i > Len(topics) \/ ~st.ok THEN st
            ELSE loop(i + 1, fetch_topic(st, topics[i].topic_id,
                                         fetch_partitions(batches, dir, topics[i])))
    IN loop(1, [ok |-> TRUE, responses |-> <<>>])

FetchResponded(resp) == Responded("Fetch", resp, FetchResponseV16_as_bytes(resp))

\* handle_request once the request is decoded and the metadata log loaded
fetch_respond(header, req, topics) ==
    IF ~topics.ok THEN Failed("error")
    ELSE FetchResponded(FetchResponseV16_new(header.correlation_id, req.session_id,
                                             topics.responses))

fetch_decoded(header, req, file, dir) ==
    IF ~req.ok THEN Failed("panic")
    ELSE IF ~RecordBatches_from_file(file).ok THEN Failed("error")
    ELSE fetch_respond(header, req.v,
                       fetch_topics(RecordBatches_from_file(file).batches, dir,
                                    req.v.topics))

api_fetch_handle_request(header, body, file, dir) ==
    fetch_decoded(header, FetchRequestV16_deserialize(body), file, dir)

----------------------------------------------------------------------------
(* main.rs *)

\* the length counted with its own four bytes
create_response_message_total(src) == put_i32(Len(src) + 4) \o src
create_response_message(src) == put_i32(Len(src)) \o src

\* the describe_topic_partitions::handle_request the build resolves to
dispatch_describe_topic_partitions(header, body, file, module) ==
    IF module = "api"
    THEN api_describe_topic_partitions_handle_request(header, body, file)
    ELSE describe_topic_partitions_handle_request(header, body)

\* process_message's result: a handler's result and the request header
with_header(r, header) ==
    [outcome |-> r.outcome, kind |-> r.kind, header |-> header, resp |-> r.resp,
     bytes |-> r.bytes]

ApiVersionsResponded(resp) ==
    Responded("ApiVersions", resp, ApiVersionsResponseV3_as_bytes(resp))

\* process_message after HeaderV2::deserialize; h is its result
dispatch(h, file, module) ==
    IF ~h.ok THEN with_header(Failed("panic"), <<>>)
    ELSE IF ~ApiKey_try_from(h.v.api_key) THEN with_header(Failed("error"), h.v)
    \* ApiKey::Fetch => todo!()
    ELSE IF h.v.api_key = ApiKey.Fetch THEN with_header(Failed("panic"), h.v)
    ELSE IF h.v.api_key = ApiKey.ApiVersions
    THEN with_header(ApiVersionsResponded(ApiVersionsResponseV3_new(h.v)), h.v)
    ELSE with_header(dispatch_describe_topic_partitions(h.v, h.rest, file, module), h.v)

\* an ApiVersions request refused when bytes of its frame are left undecoded
process_message_whole_frame(msg, file, module) ==
    IF /\ HeaderV2_deserialize(msg).ok
       /\ HeaderV2_deserialize(msg).v.api_key = ApiKey.ApiVersions
       /\ HeaderV2_deserialize(msg).rest # <<>>
    THEN with_header(Failed("panic"), HeaderV2_deserialize(msg).v)
    ELSE dispatch(HeaderV2_deserialize(msg), file, module)

process_message(msg, file, module) == dispatch(HeaderV2_deserialize(msg), file, module)

NoPending == [kind |-> "none", header |-> <<>>, resp |-> <<>>, msg |-> <<>>]

\* the next request read while the response is still to be written
at_get_message_pipelined(c) == pc[c] \in {"read", "write"}

\* the loop of handle_conn is at get_message
at_get_message(c) == pc[c] = "read"

\* listener.accept() and tokio::spawn of handle_conn
Accept(c) ==
    /\ pc[c] = "idle"
    /\ pc' = [pc EXCEPT ![c] = "read"]
    /\ UNCHANGED <<codec, metadata_log, segments, dtp_module, inbuf, eof, exit, message, pending,
                   requests, written, out, nsent>>

\* get_message: two read_exact calls; it returns once the whole frame is
\* there, fails at end of stream, and waits otherwise
GetMessage(c) ==
    /\ at_get_message(c)
    /\ LET len == get_i32(inbuf[c])
           msg_len == len.v
       IN IF len.ok /\ msg_len < 0
          \* a negative length as usize: vec![0; msg_len] panics
          THEN /\ pc' = [pc EXCEPT ![c] = "closed"]
               /\ exit' = [exit EXCEPT ![c] = "panic"]
               /\ UNCHANGED <<inbuf, message, requests>>
          ELSE IF len.ok /\ Len(len.rest) >= msg_len
          THEN /\ message' = [message EXCEPT ![c] = split_to(len.rest, msg_len)]
               /\ inbuf' = [inbuf EXCEPT ![c] = advance(len.rest, msg_len)]
               /\ requests' = [requests EXCEPT ![c] = Append(@, split_to(len.rest, msg_len))]
               /\ pc' = [pc EXCEPT ![c] = "process"]
               /\ UNCHANGED exit
          ELSE /\ eof[c]
               /\ pc' = [pc EXCEPT ![c] = "closed"]
               /\ exit' = [exit EXCEPT ![c] = "error"]
               /\ UNCHANGED <<inbuf, message, requests>>
    /\ UNCHANGED <<codec, metadata_log, segments, dtp_module, eof, pending, written, out, nsent>>

\* a panic that ends the process instead of the task: every connection closes
Processed_abort(c, r) ==
    IF r.outcome = "ok"
    THEN /\ pending' = [pending EXCEPT ![c] =
                           [kind |-> r.kind, header |-> r.header, resp |-> r.resp,
                            msg |-> create_response_message(r.bytes)]]
         /\ pc' = [pc EXCEPT ![c] = "write"]
         /\ UNCHANGED exit
    ELSE IF r.outcome = "panic"
    THEN /\ pc' = [d \in Conns |-> "closed"]
         /\ exit' = [d \in Conns |-> "panic"]
         /\ UNCHANGED pending
    ELSE /\ pc' = [pc EXCEPT ![c] = "closed"]
         /\ exit' = [exit EXCEPT ![c] = r.outcome]
         /\ UNCHANGED pending

\* the rest of the loop body once process_message has returned r: `?`
\* ends the task on Err, create_response_message frames the response
Processed(c, r) ==
    IF r.outcome = "ok"
    THEN /\ pending' = [pending EXCEPT ![c] =
                           [kind |-> r.kind, header |-> r.header, resp |-> r.resp,
                            msg |-> create_response_message(r.bytes)]]
         /\ pc' = [pc EXCEPT ![c] = "write"]
         /\ UNCHANGED exit
    ELSE /\ pc' = [pc EXCEPT ![c] = "closed"]
         /\ exit' = [exit EXCEPT ![c] = r.outcome]
         /\ UNCHANGED pending

\* process_message(&mut message)? and create_response_message(resp.as_bytes())
ProcessMessage(c) ==
    /\ pc[c] = "process"
    /\ Processed(c, process_message(message[c], metadata_log, dtp_module))
    /\ UNCHANGED <<codec, metadata_log, segments, dtp_module, inbuf, eof, message, requests, written,
                   out, nsent>>

\* process_message with the metadata log given by the bytes of its file:
\* RecordBatches::from_file runs in the handler that reads the log
loads_log(h, module) ==
    h.ok /\ h.v.api_key = ApiKey.DescribeTopicPartitions /\ module = "api"
dispatch_data(h, msg, loaded, module) ==
    IF loads_log(h, module) /\ loaded.outcome = "panic"
    THEN with_header(Failed("panic"), h.v)
    ELSE process_message(msg, loaded.file, module)
process_message_data(msg, file, module) ==
    dispatch_data(HeaderV2_deserialize(msg), msg, RecordBatches_from_file_data(file),
                  module)

ProcessMessageData(c) ==
    /\ pc[c] = "process"
    /\ Processed(c, process_message_data(message[c], metadata_log, dtp_module))
    /\ UNCHANGED <<codec, metadata_log, segments, dtp_module, inbuf, eof, message, requests,
                   written, out, nsent>>

\* the loop body with the Fetch arm of process_message calling
\* fetch::handle_request(header, message) of api/fetch.rs
fetch_dispatch(h, file, dir) ==
    IF ~h.ok THEN with_header(Failed("panic"), <<>>)
    ELSE IF h.v.api_key # ApiKey.Fetch THEN with_header(Failed("error"), h.v)
    ELSE with_header(api_fetch_handle_request(h.v, h.rest, file, dir), h.v)

FetchHandleRequest(c) ==
    /\ pc[c] = "process"
    /\ Processed(c, fetch_dispatch(HeaderV2_deserialize(message[c]), metadata_log,
                                   segments))
    /\ UNCHANGED <<codec, metadata_log, segments, dtp_module, inbuf, eof, message, requests,
                   written, out, nsent>>

\* what stream.write(buf) may return in Ok: the number of bytes the socket
\* took, the whole buffer or a shorter prefix
write_outcomes(len) == {len} \cup {n \in 1..MaxShortWrite : n < len}

\* stream.write(&resp_msg).await? returning Ok(n); n is dropped
Write(c) ==
    /\ pc[c] = "write"
    /\ \E n \in write_outcomes(Len(pending[c].msg)) :
          /\ written' = [written EXCEPT ![c] =
                            Append(@, [req |-> Len(requests[c]), kind |-> pending[c].kind,
                                       header |-> pending[c].header,
                                       resp |-> pending[c].resp,
                                       msg |-> pending[c].msg, n |-> n])]
          /\ out' = [out EXCEPT ![c] = @ \o SubSeq(pending[c].msg, 1, n)]
    /\ pending' = [pending EXCEPT ![c] = NoPending]
    /\ pc' = [pc EXCEPT ![c] = "read"]
    /\ UNCHANGED <<codec, metadata_log, segments, dtp_module, inbuf, eof, exit, message, requests, nsent>>

\* stream.write(&resp_msg).await? returning Err
WriteFail(c) ==
    /\ pc[c] = "write"
    /\ pending' = [pending EXCEPT ![c] = NoPending]
    /\ pc' = [pc EXCEPT ![c] = "closed"]
    /\ exit' = [exit EXCEPT ![c] = "error"]
    /\ UNCHANGED <<codec, metadata_log, segments, dtp_module, inbuf, eof, message, requests, written,
                   out, nsent>>

----------------------------------------------------------------------------
(* The clients and the files: the inputs of the program *)

SeqsUpTo(S, n) == UNION {[1..k -> S] : k \in 0..n}

RequestHeader(api_key, api_version, correlation_id, client_id) ==
    put_i16(api_key) \o put_i16(api_version) \o put_i32(correlation_id)
        \o (IF client_id.some THEN put_i16(Len(client_id.s)) \o client_id.s
            ELSE put_i16(-1))
        \o <<0>>

TopicA == Some(<<97>>)
TopicB == Some(<<98>>)
ClientK == Some(<<107>>)

DescribeTopicPartitionsBody(names) ==
    CompactArray_serialize([i \in 1..Len(names) |->
                                CompactNullableString_serialize(names[i]) \o <<0>>])
        \o put_i32(1) \o <<255>> \o <<0>>

U1 == Uuid_deserialize([i \in 1..16 |-> 17]).v

U2 == Uuid_deserialize([i \in 1..16 |-> 34]).v

\* the wire form of a Fetch v16 request body
FetchPartitionBytes(partition_index) ==
    put_u32(partition_index) \o put_u32(0) \o put_i64(0) \o put_u32(0) \o put_i64(0)
        \o put_u32(1024) \o <<0>>
FetchTopicBytes(t) ==
    Uuid_serialize(t.topic_id)
        \o CompactArray_serialize([i \in 1..Len(t.partitions) |->
                                       FetchPartitionBytes(t.partitions[i])])
        \o <<0>>
FetchRequestBody(session_id, topics) ==
    put_u32(500) \o put_u32(1) \o put_u32(1024) \o <<0>> \o put_u32(session_id)
        \o put_u32(0)
        \o CompactArray_serialize([i \in 1..Len(topics) |-> FetchTopicBytes(topics[i])])
        \o <<1>> \o <<1>> \o <<0>>

FetchTopics ==
    [topic_id : {U1, U2}, partitions : SeqsUpTo({0, 1}, MaxPartitions)]
FetchRequestFrames ==
    {RequestHeader(ApiKey.Fetch, 16, 11, None) \o FetchRequestBody(sid, ts) :
        sid \in {5, 9}, ts \in SeqsUpTo(FetchTopics, MaxTopics)}

ApiVersionsFrames ==
    {RequestHeader(ApiKey.ApiVersions, v, 7, None) : v \in {-1, 0, 4, 5}}
        \cup {RequestHeader(ApiKey.ApiVersions, 4, -2, ClientK) \o <<9, 9>>}
DescribeFrames(nameseqs) ==
    {RequestHeader(ApiKey.DescribeTopicPartitions, 0, 1870644833, ClientK)
        \o DescribeTopicPartitionsBody(names) : names \in nameseqs}
\* partition 1 and 0 of the topic with id U1, partition 0 of the one with U2
FetchFrames ==
    {RequestHeader(ApiKey.Fetch, 16, 11, None)
        \o FetchRequestBody(5, <<[topic_id |-> U1, partitions |-> <<1, 0>>],
                                 [topic_id |-> U2, partitions |-> <<0>>]>>)}
UnknownKeyFrames == {RequestHeader(k, 0, 13, None) : k \in {0, 19}}
TruncatedFrames == {<<0, 18, 0>>}

\* an ApiVersions request whose header ends with the tag-buffer byte 1
TaggedFrames ==
    {put_i16(ApiKey.ApiVersions) \o put_i16(4) \o put_i32(21) \o put_i16(-1) \o <<1>>}
\* an ApiVersions request whose client_id declares 5 bytes and has 1
ShortClientIdFrames ==
    {put_i16(ApiKey.ApiVersions) \o put_i16(4) \o put_i32(22) \o put_i16(5) \o <<107>>}

ClientFrames ==
    ApiVersionsFrames \cup DescribeFrames({<<TopicA>>}) \cup FetchFrames
        \cup UnknownKeyFrames \cup TruncatedFrames \cup TaggedFrames
        \cup ShortClientIdFrames

\* a frame on the wire: 4-byte big-endian length, then the payload
Framed(payload) == put_i32(Len(payload)) \o payload

RecordValues ==
    {TopicValue(TopicA, U1),
     PartitionValue(0, U1, <<1>>, <<1>>, <<2>>, <<3>>, 1, 0),
     PartitionValue(1, DEFAULT_UNKNOWN_TOPIC_UUID, <<1>>, <<1>>, <<>>, <<>>, 1, 0)}

Unreadable == [readable |-> FALSE, batches |-> <<>>]
LogFile(batches) == [readable |-> TRUE, batches |-> batches]

Logs == {Unreadable}
            \cup {LogFile(bs) : bs \in SeqsUpTo(SeqsUpTo(RecordValues, MaxRecords), MaxBatches)}

SpecLogs ==
    {Unreadable,
     LogFile(<<<<TopicValue(TopicA, U1),
                 PartitionValue(0, U1, <<1>>, <<1>>, <<2>>, <<3>>, 1, 0)>>>>)}

\* the log directory: segment files by <<topic name, partition>>
NoSegments == [k \in {} |-> <<>>]
SegmentDirs ==
    {NoSegments,
     [k \in {<<TopicA.s, 0>>} |-> <<7, 8, 9>>],
     [k \in {<<TopicA.s, 0>>} |-> <<>>],
     [k \in {<<TopicA.s, 0>>, <<TopicA.s, 1>>} |-> IF k[2] = 0 THEN <<7, 8, 9>> ELSE <<5>>]}
\* the log directory of Spec: only partition 1 of topic a has a segment file
SpecSegments == [k \in {<<TopicA.s, 1>>} |-> <<5>>]

FetchLogs ==
    {Unreadable,
     LogFile(<<>>),
     LogFile(<<<<TopicValue(TopicA, U1)>>>>),
     LogFile(<<<<PartitionValue(0, U1, <<1>>, <<1>>, <<>>, <<>>, 1, 0)>>,
               <<TopicValue(TopicB, U2), TopicValue(TopicA, U1)>>>>)}

\* requests, and the bytes that follow a request inside its frame
FrameBases ==
    {RequestHeader(ApiKey.ApiVersions, 4, 7, None),
     RequestHeader(ApiKey.ApiVersions, 5, 8, ClientK),
     RequestHeader(ApiKey.DescribeTopicPartitions, 0, 9, ClientK)
         \o DescribeTopicPartitionsBody(<<TopicA>>),
     RequestHeader(19, 0, 13, None)}
\* the third one is a whole framed request
FrameTrailing ==
    {<<>>, <<9, 9>>, Framed(RequestHeader(ApiKey.ApiVersions, 4, 99, None)),
     <<0, 0, 0, 1>>}
FramePayloads == {b \o t : b \in FrameBases, t \in FrameTrailing}

\* the bytes of a metadata log file, from the fields of its record values
put_var_i64(n) == encode_var(IF n >= 0 THEN 2 * n ELSE -2 * n - 1)
TopicPayload == CompactNullableString_serialize(TopicA) \o Uuid_serialize(U1)
PartitionPayload ==
    put_u32(0) \o Uuid_serialize(U1) \o u32_array_serialize(<<1>>)
        \o u32_array_serialize(<<1>>) \o u32_array_serialize(<<>>)
        \o u32_array_serialize(<<>>) \o put_u32(1) \o put_u32(0) \o put_u32(0)
        \o CompactArray_serialize(<<Uuid_serialize(U2)>>)
FeatureLevelPayload == CompactNullableString_serialize(Some(<<109>>)) \o put_i16(20)
RecordPayloads ==
    {[record_type |-> RecordType.Topic, payload |-> TopicPayload],
     [record_type |-> RecordType.Partition, payload |-> PartitionPayload],
     [record_type |-> RecordType.FeatureLevel, payload |-> FeatureLevelPayload]}
RecordFields ==
    {[frame_version |-> fv, record_type |-> p.record_type, version |-> v,
      payload |-> p.payload, tagged_fields_count |-> n] :
         fv \in {0, 1, 2}, p \in RecordPayloads, v \in {0, 1}, n \in {-1, 0, 1}}
        \cup {[frame_version |-> 1, record_type |-> t, version |-> 0,
               payload |-> TopicPayload, tagged_fields_count |-> 0] : t \in {0, 4, 13}}
TopicFields ==
    [frame_version |-> 1, record_type |-> RecordType.Topic, version |-> 0,
     payload |-> TopicPayload, tagged_fields_count |-> 0]
RecordValueBytes(d) ==
    <<d.frame_version, d.record_type, d.version>> \o d.payload
        \o put_var_i64(d.tagged_fields_count)
RecordBytes(value) ==
    put_var_i64(Len(value) + 6) \o <<0>> \o put_var_i64(0) \o put_var_i64(0)
        \o put_var_i64(-1) \o put_var_i64(Len(value)) \o value \o <<0>>
RecordBatchBytes(ds) ==
    put_i64(0) \o put_i32(49 + Len(Cat([i \in 1..Len(ds) |-> RecordBytes(RecordValueBytes(ds[i]))])))
        \o put_i32(0) \o <<2>> \o put_u32(0) \o put_i16(0) \o put_i32(Len(ds) - 1)
        \o put_i64(0) \o put_i64(0) \o put_i64(0) \o put_i16(0) \o put_i32(0)
        \o put_i32(Len(ds))
        \o Cat([i \in 1..Len(ds) |-> RecordBytes(RecordValueBytes(ds[i]))])
\* a readable log file: its bytes, and the fields they were written from
LogFileData(raw) ==
    [readable |-> TRUE, data |-> Cat([b \in 1..Len(raw) |-> RecordBatchBytes(raw[b])]),
     raw |-> raw]
DataLogs ==
    {LogFileData(<<<<d>>>>) : d \in RecordFields}
        \cup {LogFileData(<<<<TopicFields, d>>>>) : d \in RecordFields}
        \cup {LogFileData(<<<<TopicFields>>, <<d>>>>) : d \in RecordFields}

ClientSend(c) ==
    /\ nsent < MaxRequests
    /\ pc[c] \notin {"idle", "closed"}
    /\ ~eof[c]
    /\ \E f \in ClientFrames : inbuf' = [inbuf EXCEPT ![c] = @ \o Framed(f)]
    /\ nsent' = nsent + 1
    /\ UNCHANGED <<codec, metadata_log, segments, dtp_module, eof, pc, exit, message, pending,
                   requests, written, out>>

ClientClose(c) ==
    /\ pc[c] \notin {"idle", "closed"}
    /\ ~eof[c]
    /\ eof' = [eof EXCEPT ![c] = TRUE]
    /\ UNCHANGED <<codec, metadata_log, segments, dtp_module, inbuf, pc, exit, message, pending,
                   requests, written, out, nsent>>

----------------------------------------------------------------------------
(* The codec of protocol.rs called on its own: serialize, then deserialize   *)
(* the bytes followed by the trailing bytes of a longer buffer               *)

NoCodec == [step |-> "none"]

CodecStrings ==
    {None} \cup {Some([i \in 1..n |-> 97]) : n \in {0, 1, 2, 126, 127, 128, 300}}
           \cup {Some(<<0>>), Some(<<97, 0, 98>>), Some(<<127, 1>>)}
\* u32 values below 2^31
CodecU32 == {0, 1, 255, 65536, 2147483647}
CodecArrays == SeqsUpTo(CodecU32, MaxArrayLen)
CodecUuids ==
    {Uuid_deserialize([i \in 1..16 |-> b]).v : b \in {0, 9, 171, 255}}
        \cup {Uuid_deserialize([i \in 1..16 |-> 16 * i - 1]).v,
              DEFAULT_UNKNOWN_TOPIC_UUID}
CodecKinds == {"CompactNullableString", "CompactArray_u32", "Uuid"}
CodecValues(kind) ==
    CASE kind = "CompactNullableString" -> CodecStrings
      [] kind = "CompactArray_u32" -> CodecArrays
      [] kind = "Uuid" -> CodecUuids
CodecTrailing == {<<>>, <<9>>, <<0, 255>>}

codec_serialize(kind, v) ==
    CASE kind = "CompactNullableString" -> CompactNullableString_serialize(v)
      [] kind = "CompactArray_u32" -> u32_array_serialize(v)
      [] kind = "Uuid" -> Uuid_serialize(v)
codec_deserialize(kind, src) ==
    CASE kind = "CompactNullableString" -> CompactNullableString_deserialize(src)
      [] kind = "CompactArray_u32" -> CompactArray_deserialize("u32", src)
      [] kind = "Uuid" -> Uuid_deserialize(src)

CodecSerialize ==
    /\ codec.step = "value"
    /\ codec' = [codec EXCEPT !.step = "bytes",
                              !.bytes = codec_serialize(codec.kind, codec.v)]
    /\ UNCHANGED <<metadata_log, segments, dtp_module, inbuf, eof, pc, exit, message,
                   pending, requests, written, out, nsent>>

CodecDeserialize ==
    /\ codec.step = "bytes"
    /\ codec' = [codec EXCEPT !.step = "decoded",
                              !.result = codec_deserialize(codec.kind,
                                                           codec.bytes \o codec.trailing)]
    /\ UNCHANGED <<metadata_log, segments, dtp_module, inbuf, eof, pc, exit, message,
                   pending, requests, written, out, nsent>>

----------------------------------------------------------------------------
(* Specifications *)

InitConns ==
    /\ pc = [c \in Conns |-> "idle"]
    /\ exit = [c \in Conns |-> "none"]
    /\ message = [c \in Conns |-> <<>>]
    /\ pending = [c \in Conns |-> NoPending]
    /\ requests = [c \in Conns |-> <<>>]
    /\ written = [c \in Conns |-> <<>>]
    /\ out = [c \in Conns |-> <<>>]

Init ==
    /\ codec = NoCodec
    /\ metadata_log \in SpecLogs
    /\ segments = SpecSegments
    /\ dtp_module \in {"root", "api"}
    /\ inbuf = [c \in Conns |-> <<>>]
    /\ eof = [c \in Conns |-> FALSE]
    /\ nsent = 0
    /\ InitConns

Next ==
    \E c \in Conns :
        \/ Accept(c)
        \/ ClientSend(c)
        \/ ClientClose(c)
        \/ GetMessage(c)
        \/ ProcessMessage(c)
        \/ Write(c)
        \/ WriteFail(c)

Spec == Init /\ [][Next]_vars

\* one DescribeTopicPartitions request on one connection, over every
\* metadata log within the bounds
DescribeInit ==
    /\ codec = NoCodec
    /\ metadata_log \in Logs
    /\ segments = NoSegments
    /\ dtp_module \in {"root", "api"}
    /\ \E f \in DescribeFrames(SeqsUpTo({TopicA, TopicB}, 2)) :
          inbuf = [c \in Conns |-> IF c = "c1" THEN Framed(f) ELSE <<>>]
    /\ eof = [c \in Conns |-> TRUE]
    /\ nsent = 1
    /\ InitConns

DescribeNext ==
    \E c \in Conns :
        \/ Accept(c)
        \/ GetMessage(c)
        \/ ProcessMessage(c)
        \/ Write(c)
        \/ WriteFail(c)

DescribeSpec == DescribeInit /\ [][DescribeNext]_vars

\* one Fetch request, then a second one with a single topic, on one
\* connection, over metadata logs and log directories
FetchInit ==
    /\ codec = NoCodec
    /\ metadata_log \in FetchLogs
    /\ segments \in SegmentDirs
    /\ dtp_module = "api"
    /\ \E f \in FetchRequestFrames :
          \E g \in {RequestHeader(ApiKey.Fetch, 16, 12, None)
                        \o FetchRequestBody(7, <<[topic_id |-> U1, partitions |-> <<0>>]>>)} :
             inbuf = [c \in Conns |-> IF c = "c1" THEN Framed(f) \o Framed(g) ELSE <<>>]
    /\ eof = [c \in Conns |-> TRUE]
    /\ nsent = 2
    /\ InitConns

FetchNext ==
    \E c \in Conns :
        \/ Accept(c)
        \/ GetMessage(c)
        \/ FetchHandleRequest(c)
        \/ Write(c)
        \/ WriteFail(c)

FetchSpec == FetchInit /\ [][FetchNext]_vars

\* one request on one connection, over metadata logs given by their bytes
RecordInit ==
    /\ codec = NoCodec
    /\ metadata_log \in DataLogs
    /\ segments = NoSegments
    /\ dtp_module = "api"
    /\ \E f \in DescribeFrames({<<TopicA>>, <<TopicB, TopicA>>})
                  \cup {RequestHeader(ApiKey.ApiVersions, 4, 7, None)} :
          inbuf = [c \in Conns |-> IF c = "c1" THEN Framed(f) ELSE <<>>]
    /\ eof = [c \in Conns |-> TRUE]
    /\ nsent = 1
    /\ InitConns

RecordNext ==
    \E c \in Conns :
        \/ Accept(c)
        \/ GetMessage(c)
        \/ ProcessMessageData(c)
        \/ Write(c)
        \/ WriteFail(c)

RecordSpec == RecordInit /\ [][RecordNext]_vars

\* two frames on one connection, each a request followed by bytes no decoder
\* reads
FrameInit ==
    /\ codec = NoCodec
    /\ metadata_log \in SpecLogs
    /\ segments = NoSegments
    /\ dtp_module \in {"root", "api"}
    /\ \E f, g \in FramePayloads :
          inbuf = [c \in Conns |-> IF c = "c1" THEN Framed(f) \o Framed(g) ELSE <<>>]
    /\ eof = [c \in Conns |-> TRUE]
    /\ nsent = 2
    /\ InitConns

FrameNext ==
    \E c \in Conns :
        \/ Accept(c)
        \/ GetMessage(c)
        \/ ProcessMessage(c)
        \/ Write(c)
        \/ WriteFail(c)

FrameSpec == FrameInit /\ [][FrameNext]_vars

\* the codec alone, no connection
CodecInit ==
    /\ \E kind \in CodecKinds : \E v \in CodecValues(kind) : \E trailing \in CodecTrailing :
          codec = [kind |-> kind, v |-> v, trailing |-> trailing,
                   step |-> "value", bytes |-> <<>>, result |-> Panicked]
    /\ metadata_log = Unreadable
    /\ segments = NoSegments
    /\ dtp_module = "api"
    /\ inbuf = [c \in Conns |-> <<>>]
    /\ eof = [c \in Conns |-> TRUE]
    /\ nsent = 0
    /\ InitConns

CodecNext == CodecSerialize \/ CodecDeserialize

CodecSpec == CodecInit /\ [][CodecNext]_vars

----------------------------------------------------------------------------
(* Properties *)

\* the k-th request read on c has gone through process_message
Handled(c, k) == k < Len(requests[c]) \/ pc[c] # "process"
\* the fields of a request header, read from the request's bytes
request_api_key(req) == get_i16(req).v
request_api_version(req) == get_i16(advance(req, 2)).v
WellFormedHeader(req) == HeaderV2_deserialize(req).ok
\* the responses written for the k-th request of c
Answers(c, k) == {i \in 1..Len(written[c]) : written[c][i].req = k}
\* the k-th request of c has its response written or handed to write
Answered(c, k, kind) ==
    \/ \E i \in Answers(c, k) : written[c][i].kind = kind
    \/ k = Len(requests[c]) /\ pc[c] = "write" /\ pending[c].kind = kind

\* C1: every response message handed to the socket starts with a 4-byte
\* big-endian length that equals the number of payload bytes after it
C1_LengthPrefix ==
    \A c \in Conns : \A i \in 1..Len(written[c]) :
        /\ Len(written[c][i].msg) >= 4
        /\ get_i32(written[c][i].msg).v = Len(written[c][i].msg) - 4

C1_Witness ==
    \E c \in Conns : \E i, j \in 1..Len(written[c]) :
        /\ written[c][i].kind = "DescribeTopicPartitions"
        /\ written[c][i].resp.topics # <<>>
        /\ written[c][i].resp.topics[1].partitions # <<>>
        /\ written[c][j].kind = "ApiVersions"

\* C2: the correlation_id of the header of every response written (bytes 5..8
\* of the message) is the correlation_id of the request it answers (bytes
\* 5..8 of the request), whatever else the request holds
C2_CorrelationIdEchoed ==
    \A c \in Conns : \A i \in 1..Len(written[c]) :
        /\ written[c][i].req \in 1..Len(requests[c])
        /\ SubSeq(written[c][i].msg, 5, 8) = SubSeq(requests[c][written[c][i].req], 5, 8)

\* a negative correlation_id, a client_id and body bytes the handler ignores,
\* and a DescribeTopicPartitions answer
C2_Witness ==
    \E c \in Conns : \E i, j \in 1..Len(written[c]) :
        /\ written[c][i].kind = "ApiVersions"
        /\ written[c][i].header.correlation_id = -2
        /\ written[c][i].header.client_id = ClientK
        /\ written[c][j].kind = "DescribeTopicPartitions"
        /\ written[c][j].header.correlation_id = 1870644833

\* C3: on each connection the k-th response written answers the k-th request
\* read, and a request is read only when every earlier one has its response
\* written
C3_Fifo ==
    \A c \in Conns :
        /\ \A k \in 1..Len(written[c]) : written[c][k].req = k
        /\ Len(requests[c]) \in {Len(written[c]), Len(written[c]) + 1}
        /\ pc[c] = "read" => Len(requests[c]) = Len(written[c])

C3_Witness ==
    \E c \in Conns :
        /\ Len(written[c]) = 2
        /\ written[c][1].header.correlation_id # written[c][2].header.correlation_id

\* C4: every response message handed to the socket is written in full before
\* the loop goes on
C4_NoPartialResponse ==
    \A c \in Conns : \A i \in 1..Len(written[c]) :
        written[c][i].n = Len(written[c][i].msg)

\* C5: once a request whose api_key is none of 1, 18, 75 has been processed,
\* the connection is closed, the request is the last one read, and no response
\* was written for it; with a header that decodes the handler ended with Err
C5_UnknownApiKeyRejected ==
    \A c \in Conns : \A k \in 1..Len(requests[c]) :
        (/\ Len(requests[c][k]) >= 2
         /\ request_api_key(requests[c][k]) \notin {1, 18, 75}
         /\ Handled(c, k))
        => /\ pc[c] = "closed"
           /\ k = Len(requests[c])
           /\ Answers(c, k) = {}
           /\ WellFormedHeader(requests[c][k]) => exit[c] = "error"

\* an unknown api_key after an answered request, with more input waiting
C5_Witness ==
    \E c \in Conns :
        /\ Len(requests[c]) = 2
        /\ WellFormedHeader(requests[c][2])
        /\ request_api_key(requests[c][2]) = 19
        /\ Len(written[c]) = 1
        /\ pc[c] = "closed"

\* C6: every processed request with a well-formed header and api_key 1 has
\* a Fetch response, and the connection has not ended in a panic
C6_FetchServed ==
    \A c \in Conns : \A k \in 1..Len(requests[c]) :
        (/\ WellFormedHeader(requests[c][k])
         /\ request_api_key(requests[c][k]) = ApiKey.Fetch
         /\ Handled(c, k))
        => /\ Answered(c, k, "Fetch")
           /\ exit[c] # "panic"

\* C7: an ApiVersions request with a header that decodes is always answered,
\* and the error_code of the answer (bytes 9..10 of the message) is 35 when
\* the api_version is outside 0..4 and 0 when it is inside
C7_UnsupportedVersion ==
    \A c \in Conns : \A k \in 1..Len(requests[c]) :
        (/\ WellFormedHeader(requests[c][k])
         /\ request_api_key(requests[c][k]) = ApiKey.ApiVersions)
        => /\ process_message(requests[c][k], metadata_log, dtp_module).outcome = "ok"
           /\ Handled(c, k)
                => \/ Answered(c, k, "ApiVersions")
                   \* stream.write returned Err
                   \/ /\ pc[c] = "closed" /\ exit[c] = "error"
                      /\ k = Len(requests[c]) /\ Answers(c, k) = {}
           /\ \A i \in Answers(c, k) :
                 /\ written[c][i].kind = "ApiVersions"
                 /\ SubSeq(written[c][i].msg, 9, 10) =
                        IF request_api_version(requests[c][k]) \in 0..4
                        THEN <<0, 0>> ELSE <<0, 35>>

\* answers to api_version -1, 5 (unsupported) and 4 (supported), the
\* connection going on after the unsupported one
C7_Witness ==
    \E c \in Conns :
        /\ Len(written[c]) = 2
        /\ \A i \in 1..2 : written[c][i].kind = "ApiVersions"
        /\ written[c][1].header.api_version = -1
        /\ written[c][1].resp.error_code = 35
        /\ written[c][2].header.api_version = 4
        /\ written[c][2].resp.error_code = 0
        /\ pc[c] = "read"

\* C8: in every ApiVersions response written, the bytes after the error_code
\* are the compact array of (18,0,4), (75,0,0), (1,0,16), each with its tag
\* buffer, then throttle_time_ms = 0 and the tag buffer
C8_ApiKeysArray ==
    \A c \in Conns : \A i \in 1..Len(written[c]) :
        written[c][i].kind = "ApiVersions"
        => SubSeq(written[c][i].msg, 11, Len(written[c][i].msg)) =
               <<4, 0, 18, 0, 0, 0, 4, 0, 0, 75, 0, 0, 0, 0, 0, 0, 1, 0, 0, 0, 16, 0,
                 0, 0, 0, 0, 0>>

C8_Witness ==
    \E c \in Conns :
        /\ Len(written[c]) = 2
        /\ \A i \in 1..2 : written[c][i].kind = "ApiVersions"
        /\ written[c][1].resp.error_code = 35
        /\ written[c][2].resp.error_code = 0
        /\ Len(requests[c][2]) > Len(requests[c][1])

\* the topic names of a DescribeTopicPartitions request
requested_names(req) ==
    DescribeTopicPartitionsRequestV0_deserialize(HeaderV2_deserialize(req).rest).v.topic_names
\* the records of the whole metadata log, in log order
log_records == Cat(metadata_log.batches)
\* the topic ids the Topic records of the log give a name
topic_ids_of(name) ==
    {log_records[i].topic_id : i \in {j \in 1..Len(log_records) :
        log_records[j].type = "Topic" /\ log_records[j].topic_name = name}}
\* the Partition elements of the Partition records of the log with topic_id u
partitions_of(u) ==
    LET recs == SelectSeq(log_records,
                          LAMBDA r : r.type = "Partition" /\ r.topic_id = u)
    IN [i \in 1..Len(recs) |->
           Partition_new(ErrorCode.None, recs[i].partition_id, recs[i].leader_id,
                         recs[i].leader_epoch, recs[i].replicas,
                         recs[i].in_sync_replicas, recs[i].adding_replicas, <<>>,
                         recs[i].removing_replicas)]
\* the entries of a response for a name
entries_for(resp, name) ==
    {resp.topics[i] : i \in {j \in 1..Len(resp.topics) : resp.topics[j].name = name}}

\* C9: in every DescribeTopicPartitions response written, a requested name
\* that no Topic record of the log carries has an entry, and every entry for
\* it has error_code 3, the all-zero topic_id and no partitions; with a
\* readable log the request is answered
C9_UnknownTopic ==
    \A c \in Conns :
        /\ \A i \in 1..Len(written[c]) :
              written[c][i].kind = "DescribeTopicPartitions"
              => \A j \in 1..Len(requested_names(requests[c][i])) :
                    topic_ids_of(requested_names(requests[c][i])[j]) = {}
                    => /\ entries_for(written[c][i].resp,
                                      requested_names(requests[c][i])[j]) # {}
                       /\ \A t \in entries_for(written[c][i].resp,
                                                requested_names(requests[c][i])[j]) :
                             /\ t.error_code = ErrorCode.UnknownTopicOrPartition
                             /\ t.topic_id = DEFAULT_UNKNOWN_TOPIC_UUID
                             /\ t.partitions = <<>>
        /\ \A k \in 1..Len(requests[c]) :
              metadata_log.readable
              => process_message(requests[c][k], metadata_log, dtp_module).outcome = "ok"

\* C10: in every DescribeTopicPartitions response written by the handler
\* that reads the metadata log, a requested name that a Topic record carries
\* with topic_id U has an entry, and every entry for it has error_code 0,
\* topic_id U and one partition for each Partition record of the whole log
\* with topic_id U, in log order
C10_KnownTopic ==
    \A c \in Conns : \A i \in 1..Len(written[c]) :
        (dtp_module = "api" /\ written[c][i].kind = "DescribeTopicPartitions")
        => \A j \in 1..Len(requested_names(requests[c][i])) :
              \A u \in topic_ids_of(requested_names(requests[c][i])[j]) :
                 /\ entries_for(written[c][i].resp,
                                requested_names(requests[c][i])[j]) # {}
                 /\ \A t \in entries_for(written[c][i].resp,
                                          requested_names(requests[c][i])[j]) :
                       /\ t.error_code = ErrorCode.None
                       /\ t.topic_id = u
                       /\ t.partitions = partitions_of(u)

\* the names of a sequence are pairwise distinct
distinct_names(names) ==
    \A i, j \in 1..Len(names) : names[i] = names[j] => i = j

\* C11: every DescribeTopicPartitions response written for a request with
\* pairwise distinct names has as many topic entries as the request has
\* names, and each requested name is the name of exactly one entry
C11_OneEntryPerName ==
    \A c \in Conns : \A i \in 1..Len(written[c]) :
        (/\ written[c][i].kind = "DescribeTopicPartitions"
         /\ distinct_names(requested_names(requests[c][i])))
        => /\ Len(written[c][i].resp.topics) = Len(requested_names(requests[c][i]))
           /\ \A j \in 1..Len(requested_names(requests[c][i])) :
                 Cardinality({k \in 1..Len(written[c][i].resp.topics) :
                                 written[c][i].resp.topics[k].name =
                                     requested_names(requests[c][i])[j]}) = 1

\* the Partition elements of a DescribeTopicPartitions response
partition_elements(resp) ==
    UNION {{resp.topics[k].partitions[p] : p \in 1..Len(resp.topics[k].partitions)} :
              k \in 1..Len(resp.topics)}

\* C12: every Partition element of a DescribeTopicPartitions response written
\* has empty eligible_leader_replicas and last_known_eligible_leader_replicas,
\* and comes from a Partition record of the log whose removing_replicas are
\* its offline_replicas
C12_EligibleLeaderReplicasEmpty ==
    \A c \in Conns : \A i \in 1..Len(written[c]) :
        written[c][i].kind = "DescribeTopicPartitions"
        => \A e \in partition_elements(written[c][i].resp) :
              /\ e.eligible_leader_replicas = <<>>
              /\ e.last_known_eligible_leader_replicas = <<>>
              /\ \E r \in 1..Len(log_records) :
                    /\ log_records[r].type = "Partition"
                    /\ log_records[r].partition_id = e.partition_index
                    /\ log_records[r].removing_replicas = e.offline_replicas

\* the request is a Fetch request whose header and body decode
IsFetch(req) ==
    /\ WellFormedHeader(req)
    /\ request_api_key(req) = ApiKey.Fetch
    /\ FetchRequestV16_deserialize(HeaderV2_deserialize(req).rest).ok
fetch_request(req) == FetchRequestV16_deserialize(HeaderV2_deserialize(req).rest).v
\* the (topic, partition) positions of a decoded Fetch request
fetch_pairs(q) ==
    {tp \in (1..Len(q.topics)) \X (0..MaxPartitions + 1) :
        tp[2] \in 1..Len(q.topics[tp[1]].partitions)}
pair_topic_id(q, tp) == q.topics[tp[1]].topic_id
pair_partition(q, tp) == q.topics[tp[1]].partitions[tp[2]].partition_index
\* the names the Topic records of the log give a topic_id
names_of(u) ==
    {log_records[i].topic_name.s : i \in {j \in 1..Len(log_records) :
        log_records[j].type = "Topic" /\ log_records[j].topic_id = u}}
\* the segment file of the pair exists
segment_exists(q, tp) ==
    \E n \in names_of(pair_topic_id(q, tp)) :
        <<n, pair_partition(q, tp)>> \in DOMAIN segments
\* the topic of the pair is known and the segment file does not exist
segment_missing(q, tp) ==
    names_of(pair_topic_id(q, tp)) # {} /\ ~segment_exists(q, tp)
\* the response has one topic per requested topic and one partition entry
\* per requested partition, in the request's order
fetch_shape(q, resp) ==
    /\ Len(resp.responses) = Len(q.topics)
    /\ \A t \in 1..Len(q.topics) :
          /\ resp.responses[t].topic_id = q.topics[t].topic_id
          /\ Len(resp.responses[t].partitions) = Len(q.topics[t].partitions)
pair_entry(resp, tp) == resp.responses[tp[1]].partitions[tp[2]]
\* processing gave r, a response, and it is what was written for request k
fetch_answered(c, k, r) ==
    /\ r.outcome = "ok"
    /\ r.kind = "Fetch"
    /\ fetch_shape(fetch_request(requests[c][k]), r.resp)
    /\ \A i \in Answers(c, k) : written[c][i].resp = r.resp
\* what the server does with the k-th request of c
served(c, k) == process_message(requests[c][k], metadata_log, dtp_module)
\* what the Fetch handler of api/fetch.rs does with it
fetch_handled(c, k) ==
    fetch_dispatch(HeaderV2_deserialize(requests[c][k]), metadata_log, segments)

\* the entries of the pairs with an unknown topic_id: error 100, no batches
unknown_topic_entries(q, resp) ==
    /\ resp.error_code = ErrorCode.None
    /\ \A tp \in fetch_pairs(q) :
          names_of(pair_topic_id(q, tp)) = {}
          => /\ pair_entry(resp, tp).partition_index = pair_partition(q, tp)
             /\ pair_entry(resp, tp).error_code = ErrorCode.UnknownTopicId
             /\ pair_entry(resp, tp).record_batches = <<>>
has_unknown_topic(q) == \E tp \in fetch_pairs(q) : names_of(pair_topic_id(q, tp)) = {}

\* C13: with a readable metadata log, a Fetch request holding a pair whose
\* topic_id no Topic record carries is answered by the server, the response
\* has top-level error_code 0, and every such pair has a partition entry with
\* error_code 100 and no record batches
C13_UnknownTopicId ==
    \A c \in Conns : \A k \in 1..Len(requests[c]) :
        (/\ IsFetch(requests[c][k])
         /\ metadata_log.readable
         /\ has_unknown_topic(fetch_request(requests[c][k])))
        => /\ fetch_answered(c, k, served(c, k))
           /\ unknown_topic_entries(fetch_request(requests[c][k]), served(c, k).resp)

\* the same of the handler of api/fetch.rs called on the request, when no
\* requested segment file is missing
FetchHandler_UnknownTopicId ==
    \A c \in Conns : \A k \in 1..Len(requests[c]) :
        (/\ IsFetch(requests[c][k])
         /\ metadata_log.readable
         /\ has_unknown_topic(fetch_request(requests[c][k]))
         /\ \A tp \in fetch_pairs(fetch_request(requests[c][k])) :
               ~segment_missing(fetch_request(requests[c][k]), tp))
        => /\ fetch_answered(c, k, fetch_handled(c, k))
           /\ unknown_topic_entries(fetch_request(requests[c][k]),
                                    fetch_handled(c, k).resp)

\* the entries of the pairs whose segment file exists carry the whole file
\* as their one record batch; the other entries carry no record batch
segment_entries(q, resp) ==
    \A tp \in fetch_pairs(q) :
        /\ pair_entry(resp, tp).partition_index = pair_partition(q, tp)
        /\ segment_exists(q, tp)
              => /\ pair_entry(resp, tp).error_code = ErrorCode.None
                 /\ \E n \in names_of(pair_topic_id(q, tp)) :
                       pair_entry(resp, tp).record_batches =
                           <<segments[<<n, pair_partition(q, tp)>>]>>
        /\ ~segment_exists(q, tp) => pair_entry(resp, tp).record_batches = <<>>
has_segment(q) == \E tp \in fetch_pairs(q) : segment_exists(q, tp)

\* C14: with a readable metadata log, a Fetch request holding a pair whose
\* topic is known and whose segment file exists is answered by the server;
\* the entry of every such pair has the requested partition_index,
\* error_code 0 and one record batch equal to the whole segment file, and
\* every other entry has none
C14_SegmentBytes ==
    \A c \in Conns : \A k \in 1..Len(requests[c]) :
        (/\ IsFetch(requests[c][k])
         /\ metadata_log.readable
         /\ has_segment(fetch_request(requests[c][k])))
        => /\ fetch_answered(c, k, served(c, k))
           /\ segment_entries(fetch_request(requests[c][k]), served(c, k).resp)

\* the same of the handler of api/fetch.rs called on the request, when no
\* requested segment file is missing
FetchHandler_SegmentBytes ==
    \A c \in Conns : \A k \in 1..Len(requests[c]) :
        (/\ IsFetch(requests[c][k])
         /\ metadata_log.readable
         /\ has_segment(fetch_request(requests[c][k]))
         /\ \A tp \in fetch_pairs(fetch_request(requests[c][k])) :
               ~segment_missing(fetch_request(requests[c][k]), tp))
        => /\ fetch_answered(c, k, fetch_handled(c, k))
           /\ segment_entries(fetch_request(requests[c][k]), fetch_handled(c, k).resp)

\* the entries of the pairs whose topic is known and whose segment file
\* does not exist: error 100, no batches
missing_segment_entries(q, resp) ==
    \A tp \in fetch_pairs(q) :
        segment_missing(q, tp)
        => /\ pair_entry(resp, tp).partition_index = pair_partition(q, tp)
           /\ pair_entry(resp, tp).error_code = ErrorCode.UnknownTopicId
           /\ pair_entry(resp, tp).record_batches = <<>>
has_missing_segment(q) == \E tp \in fetch_pairs(q) : segment_missing(q, tp)

\* C15: with a readable metadata log, the Fetch handler answers a request
\* holding a pair whose topic the log knows and whose segment file does not
\* exist, and the entry of every such pair has error_code 100 and no record
\* batches
C15_MissingSegment ==
    \A c \in Conns : \A k \in 1..Len(requests[c]) :
        (/\ IsFetch(requests[c][k])
         /\ metadata_log.readable
         /\ has_missing_segment(fetch_request(requests[c][k])))
        => /\ fetch_answered(c, k, fetch_handled(c, k))
           /\ missing_segment_entries(fetch_request(requests[c][k]),
                                      fetch_handled(c, k).resp)

\* the top level of a Fetch response
fetch_top_level(q, resp) ==
    /\ resp.session_id = q.session_id
    /\ resp.error_code = ErrorCode.None
    /\ resp.throttle_time_ms = 0

\* C16: with a readable metadata log every Fetch request is answered by the
\* server with a response that carries the request's own session_id,
\* error_code 0 and throttle_time_ms 0
C16_SessionIdEchoed ==
    \A c \in Conns : \A k \in 1..Len(requests[c]) :
        (IsFetch(requests[c][k]) /\ metadata_log.readable)
        => /\ fetch_answered(c, k, served(c, k))
           /\ fetch_top_level(fetch_request(requests[c][k]), served(c, k).resp)

\* the same of the handler of api/fetch.rs called on the request, when no
\* requested segment file is missing
FetchHandler_SessionIdEchoed ==
    \A c \in Conns : \A k \in 1..Len(requests[c]) :
        (/\ IsFetch(requests[c][k])
         /\ metadata_log.readable
         /\ \A tp \in fetch_pairs(fetch_request(requests[c][k])) :
               ~segment_missing(fetch_request(requests[c][k]), tp))
        => /\ fetch_answered(c, k, fetch_handled(c, k))
           /\ fetch_top_level(fetch_request(requests[c][k]), fetch_handled(c, k).resp)

\* the declared length of the client_id of a request header (-1 when the
\* frame ends before it)
client_id_len(req) == IF Len(req) >= 10 THEN get_i16(advance(req, 8)).v ELSE -1
\* the position of the header's tag buffer in a frame whose client_id is
\* whole
header_tag_pos(req) ==
    IF client_id_len(req) > 0 THEN 11 + client_id_len(req) ELSE 11
\* the header's tag-buffer byte is there and is not UVARINT(0)
nonzero_header_tag(req) ==
    /\ Len(req) >= header_tag_pos(req)
    /\ req[header_tag_pos(req)] # 0
\* the request has no response and its connection is closed
rejected(c, k) ==
    /\ Answers(c, k) = {}
    /\ pc[c] = "closed"
    /\ k = Len(requests[c])

\* C17: once a request whose header carries a tag-buffer byte other than 0
\* has been processed, no response was written for it and the connection
\* is closed
C17_TagBufferRejected ==
    \A c \in Conns : \A k \in 1..Len(requests[c]) :
        (nonzero_header_tag(requests[c][k]) /\ Handled(c, k)) => rejected(c, k)

\* a typed read of the header needs more bytes than the frame holds
truncated_header(req) ==
    \/ Len(req) < 10
    \/ client_id_len(req) > 0 /\ Len(req) < 10 + client_id_len(req)
    \/ Len(req) < header_tag_pos(req)

\* C18: once a request whose header is truncated, in particular one whose
\* client_id declares more bytes than the frame holds, has been processed,
\* no response was written for it and the connection is closed
C18_TruncatedRejected ==
    \A c \in Conns : \A k \in 1..Len(requests[c]) :
        (truncated_header(requests[c][k]) /\ Handled(c, k)) => rejected(c, k)

\* the request is a DescribeTopicPartitions request whose header and body
\* decode
IsDescribe(req) ==
    /\ WellFormedHeader(req)
    /\ request_api_key(req) = ApiKey.DescribeTopicPartitions
    /\ DescribeTopicPartitionsRequestV0_deserialize(HeaderV2_deserialize(req).rest).ok

FetchHandler_LogUnreadable ==
    \A c \in Conns : \A k \in 1..Len(requests[c]) :
        (~metadata_log.readable /\ IsFetch(requests[c][k]) /\ Handled(c, k))
        => rejected(c, k) /\ exit[c] = "error"

\* C20: for every compact nullable string, compact array of u32 and
\* canonical lowercase UUID, deserializing the bytes serialize produced,
\* followed by any trailing bytes, succeeds, yields the value and leaves
\* exactly the trailing bytes
C20_CodecRoundTrip ==
    codec.step = "decoded"
    => /\ codec.result.ok
       /\ codec.result.v = codec.v
       /\ codec.result.rest = codec.trailing

\* the empty string, followed by trailing bytes, is decoded as a string
C20_Witness ==
    /\ codec.step = "decoded"
    /\ codec.kind = "CompactNullableString"
    /\ codec.v = Some(<<>>)
    /\ codec.trailing = <<0, 255>>
    /\ codec.result.ok
    /\ codec.result.v = Some(<<>>)

\* what process_message returns for a request when its connection is the
\* only one
alone(req) == process_message(req, metadata_log, dtp_module)
\* the bytes received so far hold a whole frame
frame_complete(buf) ==
    /\ get_i32(buf).ok
    /\ get_i32(buf).v >= 0
    /\ Len(get_i32(buf).rest) >= get_i32(buf).v
\* the task of c ended because of c's own stream or c's own last request
closed_by_itself(c) ==
    LET n == Len(requests[c])
        w == Len(written[c])
    IN \/ /\ w = n
          /\ exit[c] = "panic"
          /\ get_i32(inbuf[c]).ok
          /\ get_i32(inbuf[c]).v < 0
       \/ /\ w = n
          /\ exit[c] = "error"
          /\ eof[c]
          /\ ~frame_complete(inbuf[c])
       \/ /\ n > 0
          /\ w = n - 1
          /\ alone(requests[c][n]).outcome # "ok"
          /\ exit[c] = alone(requests[c][n]).outcome
       \* the write of the last response failed
       \/ /\ n > 0
          /\ w = n - 1
          /\ alone(requests[c][n]).outcome = "ok"
          /\ exit[c] = "error"
\* what the task of c holds: its position, its result, its buffers
task_state(c) ==
    <<pc[c], exit[c], message[c], pending[c], requests[c], written[c], out[c]>>
\* every response of c is the one for c's own request, in order, and c ended
\* only by itself
served_as_alone(c) ==
    /\ \A i \in 1..Len(written[c]) :
          /\ written[c][i].req = i
          /\ i <= Len(requests[c])
          /\ alone(requests[c][i]).outcome = "ok"
          /\ written[c][i].msg = create_response_message(alone(requests[c][i]).bytes)
    /\ pc[c] = "closed" => closed_by_itself(c)
\* a step that moves the task of c leaves the task of every other connection
\* as it was
moves_one_task ==
    \A c, d \in Conns :
        c # d /\ task_state(c)' # task_state(c) => task_state(d)' = task_state(d)

\* C21: on every connection, whatever happened on the others (a client that
\* sends nothing, a decode error, a rejected api_key, a panic), the k-th
\* response written is the one process_message gives for the connection's own
\* k-th request, the task ends only because of its own stream or its own
\* request, and no step of one connection's task changes another's
C21_ConnectionsIndependent ==
    /\ [](\A c \in Conns : served_as_alone(c))
    /\ [][moves_one_task]_vars

\* one connection ended by a panic, another answered and reading on
C21_Witness ==
    \E c, d \in Conns :
        /\ c # d
        /\ pc[c] = "closed"
        /\ exit[c] = "panic"
        /\ Len(requests[c]) = 1
        /\ pc[d] = "read"
        /\ Len(written[d]) = 1

\* a record value the decoder is to accept
acceptable(d) ==
    /\ d.frame_version = 1
    /\ <<d.record_type, d.version>> \in {<<2, 0>>, <<3, 1>>, <<12, 0>>}
    /\ d.tagged_fields_count = 0
\* the fields of every record value of the log, in file order
log_fields == Cat(metadata_log.raw)

\* C22: once a DescribeTopicPartitions request is handled by the handler that
\* loads the metadata log, it has no response and its task ended by a panic
\* when some record value of the log has a frame_version other than 1, a
\* (record_type, version) outside {(2,0), (3,1), (12,0)} or a tagged-field
\* count other than 0; and it is answered (or its write failed) when every
\* record value is of the accepted form
C22_RecordValueAccepted ==
    \A c \in Conns : \A k \in 1..Len(requests[c]) :
        (IsDescribe(requests[c][k]) /\ Handled(c, k))
        => IF \E i \in 1..Len(log_fields) : ~acceptable(log_fields[i])
           THEN rejected(c, k) /\ exit[c] = "panic" /\ pending[c] = NoPending
           ELSE \/ Answered(c, k, "DescribeTopicPartitions")
                \/ pc[c] = "closed" /\ exit[c] = "error"

\* a log whose only flaw is the tagged-field count of its second record
\* value, after a topic record the request names
C22_Witness ==
    \E c \in Conns :
        /\ Len(requests[c]) = 1
        /\ IsDescribe(requests[c][1])
        /\ pc[c] = "closed"
        /\ exit[c] = "panic"
        /\ Len(log_fields) = 2
        /\ acceptable(log_fields[1])
        /\ log_fields[2].frame_version = 1
        /\ log_fields[2].record_type = 3
        /\ log_fields[2].version = 1
        /\ log_fields[2].tagged_fields_count = 1

\* the bytes the client of c sent: the frames read so far, then the bytes
\* not read yet
stream_of(c) == Cat([k \in 1..Len(requests[c]) |-> Framed(requests[c][k])]) \o inbuf[c]
\* the requests read are the payloads of the first frames of the stream
frames_read(c) ==
    \E f, g \in FramePayloads :
        /\ stream_of(c) = Framed(f) \o Framed(g)
        /\ requests[c] \in {<<>>, <<f>>, <<f, g>>}
\* the k-th request of c had the outcome r
served_like(c, k, r) ==
    IF r.outcome = "ok"
    THEN \/ /\ k <= Len(written[c])
            /\ written[c][k].req = k
            /\ written[c][k].msg = create_response_message(r.bytes)
         \/ /\ k = Len(requests[c])
            /\ pc[c] = "write"
            /\ pending[c].msg = create_response_message(r.bytes)
         \* the write of the response failed
         \/ rejected(c, k) /\ exit[c] = "error"
    ELSE rejected(c, k) /\ exit[c] = r.outcome

\* C23: the requests read on a connection are the payloads of the frames of
\* its stream, each of the length its prefix gives, the next one starting
\* right after; and a request followed inside its frame by bytes no decoder
\* reads has the outcome and the response of the request without them
C23_FrameBoundaries ==
    \A c \in Conns :
        /\ stream_of(c) # <<>> => frames_read(c)
        /\ \A k \in 1..Len(requests[c]) : \A b \in FrameBases : \A t \in FrameTrailing :
              (requests[c][k] = b \o t /\ Handled(c, k)) => served_like(c, k, alone(b))

\* a request followed in its frame by a whole framed request: answered
\* once, and the request of the next frame answered after it
C23_Witness ==
    \E c \in Conns :
        /\ Len(written[c]) = 2
        /\ requests[c][1] = RequestHeader(ApiKey.ApiVersions, 4, 7, None)
                                \o Framed(RequestHeader(ApiKey.ApiVersions, 4, 99, None))
        /\ written[c][1].header.correlation_id = 7
        /\ written[c][2].kind = "DescribeTopicPartitions"
        /\ written[c][2].header.correlation_id = 9

====
